---- MODULE Spec2Model ----
(***************************************************************************)
(* Einstein Primary-Only Preserver (einstein_primary_preserver.py) and the *)
(* ADS candidate aggregation (einstein_missing_from_ads.py).               *)
(*                                                                         *)
(* Python strings are TLA+ strings, handled as sequences of characters     *)
(* (Len, SubSeq, \o), so that lower(), endswith(), "x in y", urlparse and  *)
(* the regular expressions of the source are computed, not assumed.        *)
(***************************************************************************)
EXTENDS Integers, Sequences, FiniteSets, TLC

(***************************************************************************)
(* Python string primitives                                                *)
(***************************************************************************)
\* Python's None, where a field holds None or a string.
None == "<None>"

LOWERCASE == "abcdefghijklmnopqrstuvwxyzäöü"

UPPERCASE == "ABCDEFGHIJKLMNOPQRSTUVWXYZÄÖÜ"

Min(a, b) == IF a <= b THEN a ELSE b

\* s[i] for a 1-based position i
Char(s, i) == SubSeq(s, i, i)

\* the lower-case letter of each upper-case letter
LOWER_OF == [c \in {Char(UPPERCASE, i) : i \in 1..Len(UPPERCASE)} |->
               Char(LOWERCASE, CHOOSE i \in 1..Len(UPPERCASE) : Char(UPPERCASE, i) = c)]

LETTERS == {Char(LOWERCASE, i) : i \in 1..Len(LOWERCASE)} \cup DOMAIN LOWER_OF

DIGIT_CHARS == {"0", "1", "2", "3", "4", "5", "6", "7", "8", "9"}

\* str.lower() on one character
LowerChar(c) == IF c \in DOMAIN LOWER_OF THEN LOWER_OF[c] ELSE c

RECURSIVE LowerRange(_, _, _)
\* "".join(LowerChar(s[i]) for i in range(lo, hi + 1)), by halving
LowerRange(s, lo, hi) ==
  IF lo > hi THEN ""
  ELSE IF lo = hi THEN LowerChar(Char(s, lo))
  ELSE LET mid == (lo + hi) \div 2
       IN  LowerRange(s, lo, mid) \o LowerRange(s, mid + 1, hi)

\* str.lower()
Lower(s) == LowerRange(s, 1, Len(s))

\* str.endswith(suffix)
EndsWith(s, suffix) ==
  /\ Len(suffix) <= Len(s)
  /\ SubSeq(s, Len(s) - Len(suffix) + 1, Len(s)) = suffix

\* str.startswith(prefix)
StartsWith(s, prefix) ==
  /\ Len(prefix) <= Len(s)
  /\ SubSeq(s, 1, Len(prefix)) = prefix

\* "needle in hay"
Contains(hay, needle) ==
  \E i \in 0..(Len(hay) - Len(needle)) : SubSeq(hay, i + 1, i + Len(needle)) = needle

\* \s of the regular expressions, and the characters str.strip() removes
IsSpace(c) == c \in {" ", "\t", "\n", "\r"}

\* \w of the regular expressions (re.UNICODE)
IsWord(c) == c \in LETTERS \/ c \in DIGIT_CHARS \/ c \in {"_", "ß"}

\* the positions of s that hold a character which strip() (underscore FALSE)
\* or strip("_") (underscore TRUE) does not remove
KeptPositions(s, underscore) ==
  {i \in 1..Len(s) : IF underscore THEN Char(s, i) # "_" ELSE ~IsSpace(Char(s, i))}

\* str.lstrip: drop the leading characters of the class
LStrip(s, underscore) ==
  LET kept == KeptPositions(s, underscore)
  IN  IF kept = {} THEN ""
      ELSE SubSeq(s, CHOOSE i \in kept : \A j \in kept : i <= j, Len(s))

\* str.rstrip
RStrip(s, underscore) ==
  LET kept == KeptPositions(s, underscore)
  IN  IF kept = {} THEN ""
      ELSE SubSeq(s, 1, CHOOSE i \in kept : \A j \in kept : j <= i)

\* str.strip()
Strip(s) == RStrip(LStrip(s, FALSE), FALSE)

(***************************************************************************)
(* urllib.parse.urlparse(url).netloc                                       *)
(***************************************************************************)
\* the position of the first ":" of s, 0 when there is none
FindColon(s) ==
  IF \E i \in 1..Len(s) : Char(s, i) = ":"
  THEN CHOOSE i \in 1..Len(s) :
         Char(s, i) = ":" /\ \A j \in 1..(i - 1) : Char(s, j) # ":"
  ELSE 0

\* the letters a to z and A to Z
ASCII_LETTERS ==
  {Char(LOWERCASE, i) : i \in 1..26} \cup {Char(UPPERCASE, i) : i \in 1..26}

\* a URL scheme: a letter, then letters, digits, "+", "-", "."
IsScheme(s) ==
  /\ s # ""
  /\ Char(s, 1) \in ASCII_LETTERS
  /\ \A i \in 1..Len(s) :
       Char(s, i) \in ASCII_LETTERS \cup DIGIT_CHARS \cup {"+", "-", "."}

\* the prefix of s that ends before the first of "/", "?", "#"
UntilDelim(s) ==
  LET delims == {i \in 1..Len(s) : Char(s, i) \in {"/", "?", "#"}}
  IN  IF delims = {} THEN s
      ELSE SubSeq(s, 1, (CHOOSE i \in delims : \A j \in delims : i <= j) - 1)

\* urlparse(url).netloc: what follows "scheme://" up to the path, query or
\* fragment; empty when the URL has no "//" after its scheme.
netloc(url) ==
  LET i == FindColon(url)
      rest == IF i > 1 /\ IsScheme(SubSeq(url, 1, i - 1))
              THEN SubSeq(url, i + 1, Len(url))
              ELSE url
  IN  IF StartsWith(rest, "//") THEN UntilDelim(SubSeq(rest, 3, Len(rest))) ELSE ""

(***************************************************************************)
(* Host trust policy                                                       *)
(***************************************************************************)
PRIMARY_WHITELIST ==
  << "doi.org", "onlinelibrary.wiley.com", "ui.adsabs.harvard.edu",
     "adsabs.harvard.edu", "archive.org", "echo.mpiwg-berlin.mpg.de",
     "mpiwg-berlin.mpg.de", "digi.ub.uni-heidelberg.de",
     "heidicon.ub.uni-heidelberg.de", "retro.seals.ch", "e-periodica.ch",
     "e-rara.ch", "journals.aps.org", "projecteuclid.org", "jstor.org",
     "gallica.bnf.fr", "nobelprize.org", "nature.com",
     "scientificamerican.com", "link.springer.com", "springer.com",
     "gutenberg.org" >>

VENUE_KEYWORDS ==
  << "Annalen der Physik", "Sitzungsberichte der Preußischen Akademie",
     "Physikalische Zeitschrift", "Zeitschrift für Physik", "Physical Review",
     "Reviews of Modern Physics", "Journal of the Franklin Institute",
     "Annals of Mathematics", "Canadian Journal of Mathematics", "Nature",
     "Science", "Comptes Rendus" >>

\* any(netloc.endswith(host) or host in netloc for host in hosts)
HostMatches(host, hosts) ==
  \E i \in DOMAIN hosts : EndsWith(host, hosts[i]) \/ Contains(host, hosts[i])

is_primary_url(url) == HostMatches(Lower(netloc(url)), PRIMARY_WHITELIST)

guess_pdf(url) ==
  LET p == Lower(url)
  IN  EndsWith(p, ".pdf") \/ Contains(p, "pdf") \/ Contains(p, "format=pdf")

(***************************************************************************)
(* Output file names                                                       *)
(***************************************************************************)
SLUG_MAXLEN == 140

RECURSIVE KeepSlugRange(_, _, _)
\* s[lo..hi] without the characters outside [\w\s\-\.], by halving
KeepSlugRange(s, lo, hi) ==
  IF lo > hi THEN ""
  ELSE IF lo = hi
       THEN LET c == Char(s, lo)
            IN  IF IsWord(c) \/ IsSpace(c) \/ c \in {"-", "."} THEN c ELSE ""
  ELSE LET mid == (lo + hi) \div 2
       IN  KeepSlugRange(s, lo, mid) \o KeepSlugRange(s, mid + 1, hi)

\* re.sub(r"[^\w\s\-\.]", "", s)
KeepSlugChars(s) == KeepSlugRange(s, 1, Len(s))

RECURSIVE UnderscoreRange(_, _, _)
\* s[lo..hi] with "_" for the first character of every run of whitespace of s
\* and nothing for the others of the run, by halving
UnderscoreRange(s, lo, hi) ==
  IF lo > hi THEN ""
  ELSE IF lo = hi
       THEN IF ~IsSpace(Char(s, lo)) THEN Char(s, lo)
            ELSE IF lo > 1 /\ IsSpace(Char(s, lo - 1)) THEN "" ELSE "_"
  ELSE LET mid == (lo + hi) \div 2
       IN  UnderscoreRange(s, lo, mid) \o UnderscoreRange(s, mid + 1, hi)

\* re.sub(r"\s+", "_", s): every maximal run of whitespace becomes one "_"
SpacesToUnderscore(s) == UnderscoreRange(s, 1, Len(s))

safe_slug(s) ==
  LET t == SpacesToUnderscore(Strip(KeepSlugChars(s)))
      cut == SubSeq(t, 1, Min(SLUG_MAXLEN, Len(t)))
  IN  IF cut = "" THEN "untitled" ELSE cut

\* base of fetch_one: f"{year + '_' if year else ''}{safe_slug(title)}".strip("_")
\* or "einstein_pub"
BaseName(title, year) ==
  LET b == (IF year # "" THEN year \o "_" ELSE "") \o safe_slug(title)
      stripped == RStrip(LStrip(b, TRUE), TRUE)
  IN  IF stripped = "" THEN "einstein_pub" ELSE stripped

(***************************************************************************)
(* Python dicts are records: update() merges, get() reads a key that may   *)
(* be missing.                                                             *)
(***************************************************************************)
\* d.update(new): the keys of new override, the other keys of d stay
Update(d, new) == new @@ d

HasKey(d, k) == k \in DOMAIN d

(***************************************************************************)
(* State                                                                   *)
(***************************************************************************)
VARIABLES
  args,      \* the parsed command line (main, lines 250-263)
  env,       \* os.environ and the optional engines found at import (43-54)
  world,     \* what the remote hosts and the render engines can answer
  items,     \* items_iter: the records submitted to the pool (388)
  pc,        \* per record: where its fetch_one call is
  cand,      \* per record: candidates of fetch_one (320)
  ci,        \* per record: position of `for url in candidates` (333)
  attempt,   \* per record: attempt of `for attempt in range(args.retries)`
  status,    \* per record: the status dict of fetch_one (321)
  final,     \* per record: final = r.url of the last response (342)
  branch,    \* per record: which call produced out_pdf: pdf, browser or book
  checks,    \* per record: the last result of validate_pdf
  fs,        \* the files under args.out: path -> content name
  results,   \* results of main (389)
  mainpc,    \* main: collecting futures, or done (ledger written)
  log,       \* per record: the GETs of line 340, in order, and how each ended
  sleeps,    \* per record: the bases of the backoff_sleep calls, in order
  note_at,   \* per record: the candidate during which note was last assigned
  call,      \* the arguments of a function applied on its own
  ret        \* and its result

vars == <<args, env, world, items, pc, cand, ci, attempt, status, final,
          branch, checks, fs, results, mainpc, log, sleeps, note_at, call, ret>>

config == <<args, env, world, items>>

pure == <<call, ret>>

(***************************************************************************)
(* Inputs                                                                  *)
(***************************************************************************)
\* the largest --retries of the model
MaxRetries == 2

\* the requests and transfers of one record that end in an exception
MaxFaults == 1

ADS_GATEWAY(bibcode) == "https://ui.adsabs.harvard.edu/link_gateway/" \o bibcode \o "/PUB_PDF"

BIB_1905 == "1905AnP...322..891E"

DOI_1905 == "10.1002/andp.19053221004"

URL_WILEY == "https://OnlineLibrary.Wiley.com/doi/" \o DOI_1905

URL_WILEY_PDF == "https://onlinelibrary.wiley.com/doi/pdf/" \o DOI_1905

URL_PUBLISHER == "https://publisher.example/abs/" \o DOI_1905

URL_REPO == "https://repository.example/einstein1905.pdf"

URL_ARCHIVE == "https://Archive.org/download/einstein1905/einstein1905.pdf"

URL_EXAMPLE == "https://example.com/grundlage.pdf"

URL_GUTENBERG == "https://www.gutenberg.org/ebooks/5001"

URL_GUTENBERG_HTML == "https://www.gutenberg.org/files/5001/5001-h/5001-h.htm"

URL_JSTOR == "https://www.jstor.org/stable/1663117"

URL_CDN == "https://cdn.example.net/viewer"

\* scenario 1 of the specification: a bibcode only
REC_ELECTRO ==
  [title |-> "On the Electrodynamics of Moving Bodies", year |-> "1905",
   doi |-> "", bibcode |-> BIB_1905, url_hint |-> ""]

\* scenario 2: only a hint, on a host outside the whitelist
REC_HINT_ONLY ==
  [title |-> "Die Grundlage der allgemeinen Relativitaetstheorie", year |-> "1916",
   doi |-> "", bibcode |-> "", url_hint |-> URL_EXAMPLE]

\* every input present; the same output file name as REC_ELECTRO
REC_FULL ==
  [title |-> " On the Electrodynamics of Moving Bodies: ", year |-> "1905",
   doi |-> DOI_1905, bibcode |-> BIB_1905, url_hint |-> URL_ARCHIVE]

\* a DOI only
REC_DOI ==
  [title |-> "Zur Elektrodynamik bewegter Koerper", year |-> "1905",
   doi |-> DOI_1905, bibcode |-> "", url_hint |-> ""]

\* a book on the Gutenberg host
REC_BOOK ==
  [title |-> "Relativity: The Special and General Theory", year |-> "",
   doi |-> "", bibcode |-> "", url_hint |-> URL_GUTENBERG]

\* a licensed host first, an index link after it
REC_JSTOR ==
  [title |-> "Physics and Reality", year |-> "1936",
   doi |-> "", bibcode |-> "1936FrInJ.221..349E", url_hint |-> URL_JSTOR]

\* a row as to_rows of einstein_missing_from_ads.py writes it
REC_ADS_ROW ==
  [title |-> "Untitled", year |-> "1905", doi |-> "",
   bibcode |-> BIB_1905, url_hint |-> ADS_GATEWAY(BIB_1905)]

\* a line of the JSONL input that is not an object: rec.get raises
NOT_A_DICT == [not_a_dict |-> TRUE]

RECS == {REC_ELECTRO, REC_HINT_ONLY, REC_FULL, REC_DOI, REC_BOOK, REC_JSTOR,
         REC_ADS_ROW, NOT_A_DICT}

\* the records a run of one record is started with
SINGLE_RECS == RECS \ {REC_FULL, REC_ADS_ROW}

IsDict(rec) == ~HasKey(rec, "not_a_dict")

\* Content-Type headers a response carries
CTYPES == {"application/pdf", "Text/HTML; charset=UTF-8", "", "image/png"}

\* r.status_code of a response
RETRYABLE == {429, 403, 500, 502, 503, 504}

STATUS_CODES == RETRYABLE \cup {200, 404}

\* where a GET may end after redirects, besides the URL asked for
REDIRECTS == {URL_GUTENBERG_HTML, URL_CDN}

\* what the exception of a failed request or transfer prints as
EXC_NETWORK == "ConnectionError"

EXC_NOFILE == "[Errno 2] No such file or directory"

EXC_NOT_DICT == "'list' object has no attribute 'get'"

\* the JSON the open-access lookup answers with: failed, or best_oa_location's
\* url_for_pdf and those of oa_locations
UNPAYWALL_DATA ==
  { [ok |-> FALSE, best |-> "", locs |-> <<>>],
    [ok |-> TRUE,  best |-> "", locs |-> <<>>],
    [ok |-> TRUE,  best |-> URL_REPO, locs |-> <<URL_REPO, URL_WILEY_PDF>>],
    [ok |-> TRUE,  best |-> URL_WILEY_PDF, locs |-> <<URL_REPO>>] }

\* what following the DOI redirect ends at: None (failure, status >= 400) or r.url
DOI_TARGETS == {None, URL_WILEY, URL_PUBLISHER}

(***************************************************************************)
(* The functions of the source on the strings of the model, computed once. *)
(***************************************************************************)
DictRecs == {r \in RECS : IsDict(r)}

\* records with and without each of doi, bibcode and url_hint; the hint on a
\* host of the whitelist or outside it
RESOLVE_RECS ==
  [title : {"Zur Elektrodynamik bewegter Koerper"}, year : {"1905"},
   doi : {"", " " \o DOI_1905}, bibcode : {"", BIB_1905 \o " "},
   url_hint : {"", URL_ARCHIVE, URL_EXAMPLE}]

\* str(rec.get(key, "")).strip() (294-298), per value of a field
STRIPPED ==
  [s \in {r[k] : r \in DictRecs \cup RESOLVE_RECS,
                 k \in {"title", "year", "doi", "bibcode", "url_hint"}} |-> Strip(s)]

ADS_FALLBACK(bibcode) == "http://adsabs.harvard.edu/pdf/" \o bibcode

\* every URL a record, a lookup or a redirect of the model brings up
URLS ==
  LET BIBCODES == {Strip(r.bibcode) : r \in DictRecs} \ {""}
  IN
  ((({Strip(r.url_hint) : r \in DictRecs} \cup DOI_TARGETS
      \cup {d.best : d \in UNPAYWALL_DATA}
      \cup UNION {{d.locs[j] : j \in DOMAIN d.locs} : d \in UNPAYWALL_DATA})
     \ {"", None})
    \cup {ADS_GATEWAY(b) : b \in BIBCODES} \cup {ADS_FALLBACK(b) : b \in BIBCODES}
    \cup REDIRECTS)

\* per URL: is_primary_url (105), guess_pdf (124), the host validate_pdf
\* derives (202), the licensed-host test (334), the Gutenberg test (371)
URL_FACTS ==
  [u \in URLS |->
     [primary   |-> is_primary_url(u),
      pdf       |-> guess_pdf(u),
      host      |-> Lower(netloc(u)),
      licensed  |-> Contains(u, "jstor.org") \/ Contains(u, "springer"),
      gutenberg |-> Contains(u, "gutenberg.org")]]

\* per Content-Type: ctype of line 341 and the tests of lines 346 and 361
CTYPE_FACTS ==
  [c \in CTYPES |->
     [ctype |-> Lower(c),
      pdf   |-> Contains(Lower(c), "pdf"),
      html  |-> Contains(Lower(c), "html") \/ Contains(Lower(c), "text/") \/ Lower(c) = ""]]

\* per record: out_pdf, os.path.join(args.out, base + ".pdf") (330-331), and
\* qpath, os.path.join(quarantine_dir, os.path.basename(out_pdf)) (356)
NAMES ==
  [r \in DictRecs |->
     LET base == BaseName(Strip(r.title), Strip(r.year))
     IN  [out_pdf |-> "out/" \o base \o ".pdf",
          qpath   |-> "out/quarantine/" \o base \o ".pdf"]]

PATHS == {n.out_pdf : n \in {NAMES[r] : r \in DictRecs}}
           \cup {n.qpath : n \in {NAMES[r] : r \in DictRecs}}

(***************************************************************************)
(* Files.  A file's content is named; FILES gives what PdfReader, pdfminer *)
(* and os.path.getsize find in it.  NOFILE is the content of a path that   *)
(* does not exist.                                                         *)
(***************************************************************************)
NOFILE == "<no file>"

TEXT_PAPER ==
  "Zur Elektrodynamik bewegter Koerper; von A. EINSTEIN. Annalen der Physik 17 (1905). "
    \o "Dass die Elektrodynamik Maxwells in ihrer Anwendung auf bewegte Koerper zu Asymmetrien fuehrt"

TEXT_LANDING ==
  "Access denied. Sign in through your institution to read this article of the Physical Review; "
    \o "purchase options and subscriptions are listed below."

TEXT_BOOK ==
  "The Project Gutenberg eBook of Relativity: The Special and General Theory, by Albert Einstein. "
    \o "This eBook is for the use of anyone anywhere at no cost."

TEXT_BYLINE == "A. Einstein, Bern"

TEXT_STAMP == "Digitized by the library"

\* the keyword and a venue in under 100 characters
TEXT_CITE == "A. Einstein, Nature 112 (1923)"

\* neither the keyword nor a venue in over 100 characters
TEXT_NOTICE ==
  "This document was scanned from microfilm. Pages may be missing or out of order; "
    \o "ask the reading room staff for a replacement copy."

\* 99 and 100 characters of TEXT_LANDING
TEXT_99 == SubSeq(TEXT_LANDING, 8, 106)

TEXT_100 == SubSeq(TEXT_LANDING, 8, 107)

TEXTS == {"", TEXT_PAPER, TEXT_LANDING, TEXT_BOOK, TEXT_BYLINE, TEXT_STAMP, TEXT_CITE,
          TEXT_NOTICE, TEXT_99, TEXT_100}

\* per extracted text: text_len and the keyword tests of validate_pdf (193-197)
TEXT_FACTS ==
  [t \in TEXTS |->
     LET text_low == Lower(t)
     IN  [text_len     |-> Len(text_low),
          has_einstein |-> Contains(text_low, "einstein"),
          has_venue    |-> \E i \in DOMAIN VENUE_KEYWORDS :
                             Contains(text_low, Lower(VENUE_KEYWORDS[i]))]]

FILES ==
  [ paper13   |-> [parse |-> TRUE,  pages |-> 13,  text |-> TEXT_PAPER,   big |-> TRUE],
    scan45    |-> [parse |-> TRUE,  pages |-> 45,  text |-> "",           big |-> TRUE],
    landing   |-> [parse |-> TRUE,  pages |-> 1,   text |-> TEXT_LANDING, big |-> TRUE],
    book300   |-> [parse |-> TRUE,  pages |-> 300, text |-> TEXT_BOOK,    big |-> TRUE],
    corrupt   |-> [parse |-> FALSE, pages |-> 0,   text |-> "",           big |-> TRUE],
    truncated |-> [parse |-> FALSE, pages |-> 0,   text |-> "",           big |-> FALSE] ]

\* every answer the hosts of the model can give
FullWorld ==
  [files |-> DOMAIN FILES \ {"truncated"}, redirects |-> REDIRECTS, ctypes |-> CTYPES,
   faults |-> TRUE]

\* hashlib.sha256 of the file's bytes: one digest per content
sha256_bytes(content) == "sha256:" \o content

(***************************************************************************)
(* Validator                                                               *)
(***************************************************************************)
SCAN_TEXT_LIMIT == 100

SCAN_MIN_PAGES == 2

SCAN_MAX_PAGES == 80

PAGE_SANE_MAX == 200

BOOK_MIN_PAGES == 50

\* the result of validate_pdf when anything raises
ValidateFailed ==
  [has_einstein |-> FALSE, has_venue |-> FALSE, page_sane |-> FALSE,
   valid_primary |-> FALSE, text_len |-> 0, pages |-> 0, host |-> ""]

\* valid of validate_pdf before the relaxation
BaselineValid(has_einstein, page_sane) == has_einstein /\ page_sane

\* the relaxation without the is_trusted test of line 204
ScanOnlyRelaxation_AnyHost(accept_scan_only, is_trusted, text_len, pages) ==
  /\ accept_scan_only
  /\ text_len < SCAN_TEXT_LIMIT
  /\ SCAN_MIN_PAGES <= pages /\ pages <= SCAN_MAX_PAGES

\* the relaxation without the lower page bound of line 206
ScanOnlyRelaxation_NoMinPages(accept_scan_only, is_trusted, text_len, pages) ==
  /\ accept_scan_only /\ is_trusted
  /\ text_len < SCAN_TEXT_LIMIT
  /\ pages <= SCAN_MAX_PAGES

\* the condition under which validate_pdf forces valid = True
ScanOnlyRelaxation(accept_scan_only, is_trusted, text_len, pages) ==
  /\ accept_scan_only /\ is_trusted
  /\ text_len < SCAN_TEXT_LIMIT
  /\ SCAN_MIN_PAGES <= pages /\ pages <= SCAN_MAX_PAGES

\* page_sane with the article range ending at SCAN_MAX_PAGES
PageSane_Short(pages, book) ==
  (1 <= pages /\ pages <= SCAN_MAX_PAGES) \/ (book /\ pages > BOOK_MIN_PAGES)

PageSane(pages, book) ==
  (1 <= pages /\ pages <= PAGE_SANE_MAX) \/ (book /\ pages > BOOK_MIN_PAGES)

\* validate_pdf; file is what is at path: [exists, parse, pages, text], where
\* parse says whether PdfReader and pdfminer read it without raising.
validate_pdf(file, source_url, accept_scan_only, trusted_hosts, book) ==
  IF ~file.exists \/ ~file.parse THEN ValidateFailed
  ELSE
    LET pages == file.pages
        text_len == TEXT_FACTS[file.text].text_len
        has_einstein == TEXT_FACTS[file.text].has_einstein
        has_venue == TEXT_FACTS[file.text].has_venue
        page_sane == PageSane(pages, book)
        host == IF source_url # None /\ source_url # ""
                THEN URL_FACTS[source_url].host ELSE ""
        is_trusted == HostMatches(host, trusted_hosts)
        valid == \/ BaselineValid(has_einstein, page_sane)
                 \/ ScanOnlyRelaxation(accept_scan_only, is_trusted, text_len, pages)
    IN  [has_einstein |-> has_einstein, has_venue |-> has_venue,
         page_sane |-> page_sane, valid_primary |-> valid,
         text_len |-> text_len, pages |-> pages, host |-> host]

(***************************************************************************)
(* Candidate resolver                                                      *)
(***************************************************************************)
\* resolve_doi: target is what the GET of https://doi.org/<doi> gave
resolve_doi(doi, target) == IF doi = "" THEN None ELSE target

\* the first url_for_pdf of locs that is non-empty and primary, None if none
FirstPrimary(locs) ==
  LET ok == {j \in DOMAIN locs : locs[j] # "" /\ URL_FACTS[locs[j]].primary}
  IN  IF ok = {} THEN None ELSE locs[CHOOSE j \in ok : \A k \in ok : j <= k]

try_unpaywall(doi, data) ==
  IF ~env.UNPAYWALL_EMAIL \/ doi = "" THEN None
  ELSE IF ~data.ok THEN None
  ELSE IF data.best # "" /\ URL_FACTS[data.best].primary THEN data.best
  ELSE FirstPrimary(data.locs)

try_ads_pdf(bibcode) ==
  IF ~env.ADS_TOKEN \/ bibcode = "" THEN None ELSE ADS_GATEWAY(bibcode)

\* the list comprehension of line 312 without its is_primary_url test
FilterPrimary_KeepAll(us) == SelectSeq(us, LAMBDA u : u # "")

\* the list comprehension of line 312 yielding its elements last to first
FilterPrimary_Reversed(us) ==
  LET f == SelectSeq(us, LAMBDA u : u # "" /\ URL_FACTS[u].primary)
  IN  [n \in 1..Len(f) |-> f[Len(f) + 1 - n]]

\* [u for u in candidates if u and is_primary_url(u)]
FilterPrimary(us) == SelectSeq(us, LAMBDA u : u # "" /\ URL_FACTS[u].primary)

\* a list of the URLs that are not None
Present(us) == SelectSeq(us, LAMBDA u : u # None /\ u # "")

\* what the four steps of lines 301-310 come up with, in the order of the
\* appends: u of resolve_doi, u2 of try_unpaywall, u of try_ads_pdf, url_hint;
\* None where a step appends nothing.  target and data are what the two
\* lookups answered.
Slots(rec, target, data) ==
  LET doi == STRIPPED[rec.doi]
      bibcode == STRIPPED[rec.bibcode]
      url_hint == STRIPPED[rec.url_hint]
  IN  << IF doi # "" THEN resolve_doi(doi, target) ELSE None,
         IF doi # "" THEN try_unpaywall(doi, data) ELSE None,
         IF bibcode # "" THEN try_ads_pdf(bibcode) ELSE None,
         IF url_hint # "" THEN url_hint ELSE None >>

\* resolve_candidates without the fallback of lines 313-316
resolve_candidates_NoFallback(rec, target, data) ==
  FilterPrimary(Present(Slots(rec, target, data)))

\* the candidates of resolve_candidates (300-316)
resolve_candidates(rec, target, data) ==
  LET bibcode == STRIPPED[rec.bibcode]
      found == Present(Slots(rec, target, data))
      kept == FilterPrimary(found)
      fallback == ADS_FALLBACK(bibcode)
  IN  IF kept = <<>> /\ bibcode # "" /\ URL_FACTS[fallback].primary
      THEN <<fallback>>
      ELSE kept

(***************************************************************************)
(* fetch_one                                                               *)
(***************************************************************************)
Recs == 1..Len(items)

\* trusted_hosts of main (272-275)
trusted_hosts == args.trust_host \o
  << "adsabs.harvard.edu", "ui.adsabs.harvard.edu", "archive.org",
     "echo.mpiwg-berlin.mpg.de", "digi.ub.uni-heidelberg.de" >>

\* out_pdf of fetch_one (330-331)
out_pdf(i) == NAMES[items[i]].out_pdf

\* qpath of fetch_one (356)
qpath(i) == NAMES[items[i]].qpath

\* what open(path) finds
ReadFile(path) ==
  IF fs[path] = NOFILE
  THEN [exists |-> FALSE, parse |-> FALSE, pages |-> 0, text |-> "", big |-> FALSE]
  ELSE [exists |-> TRUE] @@ FILES[fs[path]]

\* sha256_file(path), for a path that exists
sha256_file(path) == sha256_bytes(fs[path])

\* os.path.exists(path) and os.path.getsize(path) > 500
ExistsAndBig(files, path) == files[path] # NOFILE /\ FILES[files[path]].big

\* the status dict fetch_one starts from (321-325)
InitialStatus(title, year) ==
  [title |-> title, year |-> year, chosen_url |-> None, saved_as |-> None,
   sha256 |-> None, validated |-> FALSE, has_einstein |-> FALSE,
   has_venue |-> FALSE, page_sane |-> FALSE, note |-> "",
   text_len |-> 0, pages |-> 0, host |-> ""]

\* a return of line 328 without the note of line 327
NoCandidateStatus_Unnoted(st) == st

\* the status fetch_one returns when there is no candidate (326-328)
NoCandidateStatus(st) == [st EXCEPT !.note = "no_primary_candidate"]

\* the dict the accepting branches merge into status (352, 368, 375)
AcceptUpdate(path, digest, chk) == [saved_as |-> path, sha256 |-> digest] @@ chk

\* the dict the quarantine branch merges into status (358)
QuarantineUpdate(path, chk) ==
  [saved_as |-> path, note |-> "quarantined_failed_validation"] @@ chk

\* line 334: a licensed host is skipped unless --allow-licensed
SkipLicensed(url) == URL_FACTS[url].licensed /\ ~args.allow_licensed

\* the first position from k on that `for url in candidates` does not skip;
\* Len(cs) + 1 when the loop ends
NextCandidate(cs, k) ==
  LET open == {j \in k..Len(cs) : ~SkipLicensed(cs[j])}
  IN  IF open = {} THEN Len(cs) + 1 ELSE CHOOSE j \in open : \A m \in open : j <= m

RECURSIVE Pow2(_)
Pow2(n) == IF n = 0 THEN 1 ELSE 2 * Pow2(n - 1)

BACKOFF_CAP == 60

\* base of backoff_sleep without the min(60, ...)
BackoffBase_Uncapped(a) == Pow2(a)

\* base of backoff_sleep; the sleep lasts base + a jitter in [0, 1)
BackoffBase(a) == Min(BACKOFF_CAP, Pow2(a))

backoff_sleep(i, a) == sleeps' = [sleeps EXCEPT ![i] = Append(@, BackoffBase(a))]

\* the GET of line 340 is on record: candidate, attempt, how it ended, and
\* whether the test of line 361 holds of the Content-Type of its response
Logged(i, kind, html) ==
  log' = [log EXCEPT ![i] =
            Append(@, [k |-> ci[i], a |-> attempt[i], out |-> kind, html |-> html])]

\* status["note"] is assigned during the attempts on the current candidate
Noted(i) == note_at' = [note_at EXCEPT ![i] = ci[i]]

\* r, ctype, final and checks are assigned anew in every attempt before they
\* are read: what an attempt leaves in them is dropped when it is over
Forget(i) ==
  /\ final' = [final EXCEPT ![i] = None]
  /\ branch' = [branch EXCEPT ![i] = "none"]
  /\ checks' = [checks EXCEPT ![i] = ValidateFailed]

\* the candidate loop goes on at position k of cs with status st: the next
\* candidate not skipped becomes chosen_url (336), or the loop is over and
\* fetch_one returns status (386)
GoCandidate(i, cs, k, st) ==
  LET n == NextCandidate(cs, k)
  IN  /\ Forget(i)
      /\ IF n > Len(cs)
         THEN /\ pc' = [pc EXCEPT ![i] = "returned"]
              /\ status' = [status EXCEPT ![i] = st]
              /\ UNCHANGED <<ci, attempt>>
         ELSE /\ pc' = [pc EXCEPT ![i] = "fetch"]
              /\ ci' = [ci EXCEPT ![i] = n]
              /\ attempt' = [attempt EXCEPT ![i] = 0]
              /\ status' = [status EXCEPT ![i] = [st EXCEPT !.chosen_url = cs[n]]]

\* `break` of the attempt loop: on to the next candidate
Break(i, st) == GoCandidate(i, cand[i], ci[i] + 1, st)

\* `continue` in a loop that is not bounded by range(args.retries): always
\* one more attempt on the same URL
Continue_Unbounded(i, st) ==
  /\ pc' = [pc EXCEPT ![i] = "fetch"]
  /\ attempt' = [attempt EXCEPT ![i] = attempt[i] + 1]
  /\ status' = [status EXCEPT ![i] = st]
  /\ Forget(i)
  /\ UNCHANGED ci

\* `continue` of the attempt loop: the next attempt on the same URL, or the
\* next candidate once range(args.retries) is used up
Continue(i, st) ==
  IF attempt[i] + 1 < args.retries
  THEN /\ pc' = [pc EXCEPT ![i] = "fetch"]
       /\ attempt' = [attempt EXCEPT ![i] = attempt[i] + 1]
       /\ status' = [status EXCEPT ![i] = st]
       /\ Forget(i)
       /\ UNCHANGED ci
  ELSE Break(i, st)

\* the handler of line 382: note the exception, sleep, continue
Except(i, e) ==
  /\ backoff_sleep(i, attempt[i])
  /\ Noted(i)
  /\ Continue(i, [status[i] EXCEPT !.note = "error:" \o e])

\* the note and the break of 377-378
HtmlNoPdf(i) ==
  /\ Noted(i)
  /\ Break(i, [status[i] EXCEPT !.note = "html_no_primary_pdf"])

\* the tasks a pool thread is running
Running == {j \in Recs : pc[j] \in {"fetch", "browser", "book", "validate", "finish"}}

PoolSize == IF args.concurrency > 1 THEN args.concurrency ELSE 1

\* A free pool thread takes the oldest queued task and runs fetch_one up to
\* its candidate loop: resolve_candidates with its two lookups (320), the
\* status dict, and the return of line 328 when there is no candidate.
Start(i) ==
  /\ pc[i] = "queued"
  /\ \A j \in 1..(i - 1) : pc[j] # "queued"
  /\ Cardinality(Running) < PoolSize
  /\ IF ~IsDict(items[i])
     THEN /\ pc' = [pc EXCEPT ![i] = "raised"]
          /\ UNCHANGED <<cand, ci, attempt, status, final, branch, checks>>
     ELSE \E target \in DOI_TARGETS, data \in UNPAYWALL_DATA :
            LET cs == resolve_candidates(items[i], target, data)
                st == InitialStatus(STRIPPED[items[i].title], STRIPPED[items[i].year])
            IN  /\ cand' = [cand EXCEPT ![i] = cs]
                /\ IF cs = <<>>
                   THEN /\ pc' = [pc EXCEPT ![i] = "returned"]
                        /\ status' = [status EXCEPT ![i] = NoCandidateStatus(st)]
                        /\ UNCHANGED <<ci, attempt, final, branch, checks>>
                   ELSE GoCandidate(i, cs, 1, st)
  /\ UNCHANGED <<config, fs, results, mainpc, log, sleeps, note_at, pure>>

\* after an HTML response, and after a browser download that was not accepted:
\* the Gutenberg case (371) or the note and break of 377-378
BookOrBreak(i, fin) ==
  IF URL_FACTS[fin].gutenberg
  THEN /\ pc' = [pc EXCEPT ![i] = "book"]
       /\ final' = [final EXCEPT ![i] = fin]
       /\ branch' = [branch EXCEPT ![i] = "none"]
       /\ checks' = [checks EXCEPT ![i] = ValidateFailed]
       /\ UNCHANGED <<ci, attempt, status, note_at>>
  ELSE HtmlNoPdf(i)

\* a request or a transfer may fail now: fewer than MaxFaults GETs of record
\* i have ended in an exception so far
MayFail(i) ==
  /\ world.faults
  /\ Cardinality({n \in DOMAIN log[i] : log[i][n].out \in {"exception", "broken"}}) < MaxFaults

\* sess.get raises (340)
GetRaises(i) ==
  /\ MayFail(i)
  /\ Logged(i, "exception", FALSE)
  /\ Except(i, EXC_NETWORK)
  /\ UNCHANGED fs

\* a status of the retryable set: sleep and continue, the note untouched (343)
GetRetryable(i) ==
  /\ world.faults
  /\ \E code \in STATUS_CODES : code \in RETRYABLE
  /\ Logged(i, "retryable", FALSE)
  /\ backoff_sleep(i, attempt[i])
  /\ Continue(i, status[i])
  /\ UNCHANGED <<fs, note_at>>

\* the final URL of a response to a GET of url
Finals(url) == {url} \cup world.redirects

\* line 346
IsPdfResponse(ctype, fin) == CTYPE_FACTS[ctype].pdf \/ URL_FACTS[fin].pdf

\* line 361
IsHtmlResponse(ctype) == CTYPE_FACTS[ctype].html

\* a PDF response: the body is streamed to out_pdf (347-349); the transfer
\* may break off, which leaves what was written and raises
GetPdf(i) ==
  \E code \in STATUS_CODES \ RETRYABLE, ctype \in world.ctypes,
     fin \in Finals(cand[i][ci[i]]) :
    /\ IsPdfResponse(ctype, fin)
    /\ \/ \E body \in world.files :
            /\ Logged(i, "pdf", IsHtmlResponse(ctype))
            /\ fs' = [fs EXCEPT ![out_pdf(i)] = body]
            /\ pc' = [pc EXCEPT ![i] = "validate"]
            /\ final' = [final EXCEPT ![i] = fin]
            /\ branch' = [branch EXCEPT ![i] = "pdf"]
            /\ UNCHANGED <<ci, attempt, status, checks, sleeps, note_at>>
       \/ /\ MayFail(i)
          /\ Logged(i, "broken", IsHtmlResponse(ctype))
          /\ fs' = [fs EXCEPT ![out_pdf(i)] = "truncated"]
          /\ Except(i, EXC_NETWORK)

\* an HTML, text or untyped response (361): the browser if asked for and
\* installed, else the Gutenberg case
GetHtml(i) ==
  \E code \in STATUS_CODES \ RETRYABLE, ctype \in world.ctypes,
     fin \in Finals(cand[i][ci[i]]) :
    /\ ~IsPdfResponse(ctype, fin)
    /\ IsHtmlResponse(ctype)
    /\ Logged(i, "html", TRUE)
    /\ IF args.use_browser /\ env.HAVE_PLAYWRIGHT
       THEN /\ pc' = [pc EXCEPT ![i] = "browser"]
            /\ final' = [final EXCEPT ![i] = fin]
            /\ UNCHANGED <<ci, attempt, status, branch, checks, note_at>>
       ELSE BookOrBreak(i, fin)
    /\ UNCHANGED <<fs, sleeps>>

\* any other content type, with `continue` where line 381 has `break`
GetUnsupported_Retry(i) ==
  \E code \in STATUS_CODES \ RETRYABLE, ctype \in world.ctypes,
     fin \in Finals(cand[i][ci[i]]) :
    /\ ~IsPdfResponse(ctype, fin)
    /\ ~IsHtmlResponse(ctype)
    /\ Logged(i, "unsupported", FALSE)
    /\ Noted(i)
    /\ Continue(i, [status[i] EXCEPT !.note = "unsupported_ctype:" \o CTYPE_FACTS[ctype].ctype])
    /\ UNCHANGED <<fs, sleeps>>

\* any other content type (379-381)
GetUnsupported(i) ==
  \E code \in STATUS_CODES \ RETRYABLE, ctype \in world.ctypes,
     fin \in Finals(cand[i][ci[i]]) :
    /\ ~IsPdfResponse(ctype, fin)
    /\ ~IsHtmlResponse(ctype)
    /\ Logged(i, "unsupported", FALSE)
    /\ Noted(i)
    /\ Break(i, [status[i] EXCEPT !.note = "unsupported_ctype:" \o CTYPE_FACTS[ctype].ctype])
    /\ UNCHANGED <<fs, sleeps>>

\* One pass of the attempt loop up to the point where a file is on disk or
\* the attempt is over: the GET of line 340 and the branch on its response.
Get(i) ==
  /\ pc[i] = "fetch"
  /\ \/ GetRaises(i)
     \/ GetRetryable(i)
     \/ GetPdf(i)
     \/ GetHtml(i)
     \/ GetUnsupported(i)
  /\ UNCHANGED <<config, cand, results, mainpc, pure>>

\* browser_fetch_pdf(final, out_pdf) (364): the download or the printed page
\* is written to out_pdf, or the call fails and returns False; ok is whether
\* out_pdf then exists with more than 500 bytes.
Browser(i) ==
  /\ pc[i] = "browser"
  /\ \/ \E body \in world.files :
          LET files == [fs EXCEPT ![out_pdf(i)] = body]
          IN  /\ fs' = files
              /\ IF ExistsAndBig(files, out_pdf(i))
                 THEN /\ pc' = [pc EXCEPT ![i] = "validate"]
                      /\ branch' = [branch EXCEPT ![i] = "browser"]
                      /\ UNCHANGED <<ci, attempt, status, final, checks, note_at>>
                 ELSE BookOrBreak(i, final[i])
     \/ /\ BookOrBreak(i, final[i])
        /\ UNCHANGED fs
  /\ UNCHANGED <<config, cand, results, mainpc, log, sleeps, pure>>

\* html_to_pdf(final, out_pdf) (372): pdfkit, then Playwright, each only if
\* installed; each writes out_pdf or fails.  Not ok: the note and the break
\* of 377-378.
Book(i) ==
  /\ pc[i] = "book"
  /\ \/ /\ env.HAVE_PDFKIT \/ env.HAVE_PLAYWRIGHT
        /\ \E body \in world.files :
             LET files == [fs EXCEPT ![out_pdf(i)] = body]
             IN  /\ fs' = files
                 /\ IF ExistsAndBig(files, out_pdf(i))
                    THEN /\ pc' = [pc EXCEPT ![i] = "validate"]
                         /\ branch' = [branch EXCEPT ![i] = "book"]
                         /\ UNCHANGED <<ci, attempt, status, final, checks, note_at>>
                    ELSE HtmlNoPdf(i)
     \/ /\ HtmlNoPdf(i)
        /\ UNCHANGED fs
  /\ UNCHANGED <<config, cand, results, mainpc, log, sleeps, pure>>

\* validate_pdf on what is at out_pdf now (350, 366, 374), and the test of
\* its result: only the browser branch goes on without a return when the
\* file is not valid.
Validate(i) ==
  /\ pc[i] = "validate"
  /\ LET chk == validate_pdf(ReadFile(out_pdf(i)), final[i], args.accept_scan_only,
                             trusted_hosts, branch[i] = "book")
     IN  IF branch[i] = "browser" /\ ~chk.valid_primary
         THEN BookOrBreak(i, final[i])
         ELSE /\ checks' = [checks EXCEPT ![i] = chk]
              /\ pc' = [pc EXCEPT ![i] = "finish"]
              /\ UNCHANGED <<ci, attempt, status, final, branch, note_at>>
  /\ UNCHANGED <<config, cand, fs, results, mainpc, log, sleeps, pure>>

\* the direct-PDF branch with a file that is not valid: shutil.move to the
\* quarantine directory, the update of 358 and the return
Quarantine(i) ==
  /\ branch[i] = "pdf" /\ ~checks[i].valid_primary
  /\ IF fs[out_pdf(i)] = NOFILE
     THEN /\ Except(i, EXC_NOFILE)
          /\ UNCHANGED fs
     ELSE /\ fs' = [fs EXCEPT ![qpath(i)] = fs[out_pdf(i)], ![out_pdf(i)] = NOFILE]
          /\ status' = [status EXCEPT ![i] = Update(@, QuarantineUpdate(qpath(i), checks[i]))]
          /\ Noted(i)
          /\ Forget(i)
          /\ pc' = [pc EXCEPT ![i] = "returned"]
          /\ UNCHANGED <<ci, attempt, sleeps>>

\* the accepting updates: sha256_file of out_pdf, the update with the checks
\* and the return (352-353, 368-369, 375-376)
Accept(i) ==
  /\ ~(branch[i] = "pdf" /\ ~checks[i].valid_primary)
  /\ IF fs[out_pdf(i)] = NOFILE
     THEN Except(i, EXC_NOFILE)
     ELSE /\ status' = [status EXCEPT ![i] =
                          Update(@, AcceptUpdate(out_pdf(i), sha256_file(out_pdf(i)), checks[i]))]
          /\ Forget(i)
          /\ pc' = [pc EXCEPT ![i] = "returned"]
          /\ UNCHANGED <<ci, attempt, sleeps, note_at>>
  /\ UNCHANGED fs

Finish(i) ==
  /\ pc[i] = "finish"
  /\ \/ Quarantine(i)
     \/ Accept(i)
  /\ UNCHANGED <<config, cand, results, mainpc, log, pure>>

(***************************************************************************)
(* main: the pool and the ledger                                           *)
(***************************************************************************)
\* the loop of 392-396 without the except clause of 395-396: the future of
\* a fetch_one that raised is passed over
Consume_DropRaised(i) ==
  /\ mainpc = "collect"
  /\ pc[i] \in {"returned", "raised"}
  /\ results' = IF pc[i] = "returned" THEN Append(results, status[i]) ELSE results
  /\ pc' = [pc EXCEPT ![i] = "consumed"]
  /\ UNCHANGED <<config, cand, ci, attempt, status, final, branch, checks, fs,
                 mainpc, log, sleeps, note_at, pure>>

\* the loop over as_completed(futs) (392-396): the result of a finished
\* future is appended, or the fatal entry when fetch_one raised
Consume(i) ==
  /\ mainpc = "collect"
  /\ pc[i] \in {"returned", "raised"}
  /\ results' = Append(results,
                       IF pc[i] = "returned" THEN status[i]
                       ELSE [note |-> "fatal:" \o EXC_NOT_DICT])
  /\ pc' = [pc EXCEPT ![i] = "consumed"]
  /\ UNCHANGED <<config, cand, ci, attempt, status, final, branch, checks, fs,
                 mainpc, log, sleeps, note_at, pure>>

\* every future consumed: the ledger files are written (398-402)
WriteLedger ==
  /\ mainpc = "collect"
  /\ \A i \in Recs : pc[i] = "consumed"
  /\ mainpc' = "done"
  /\ UNCHANGED <<config, pc, cand, ci, attempt, status, final, branch, checks, fs,
                 results, log, sleeps, note_at, pure>>

\* the state main is in when the pool starts, for a list of records
InitRun(recs) ==
  /\ items = recs
  /\ pc = [i \in DOMAIN recs |-> "queued"]
  /\ cand = [i \in DOMAIN recs |-> <<>>]
  /\ ci = [i \in DOMAIN recs |-> 0]
  /\ attempt = [i \in DOMAIN recs |-> 0]
  /\ status = [i \in DOMAIN recs |-> [note |-> ""]]
  /\ final = [i \in DOMAIN recs |-> None]
  /\ branch = [i \in DOMAIN recs |-> "none"]
  /\ checks = [i \in DOMAIN recs |-> ValidateFailed]
  /\ fs = [p \in PATHS |-> NOFILE]
  /\ results = <<>>
  /\ mainpc = "collect"
  /\ log = [i \in DOMAIN recs |-> <<>>]
  /\ sleeps = [i \in DOMAIN recs |-> <<>>]
  /\ note_at = [i \in DOMAIN recs |-> 0]

NoCall ==
  /\ call = [op |-> "none"]
  /\ ret = [done |-> FALSE]

\* the --trust-host lists of the model
TRUST_HOST_ARGS == {<<>>, <<"Gutenberg.org">>, <<"example.com">>}

\* --concurrency when it is not given (253)
DEFAULT_CONCURRENCY == 3

\* the environments of the model: every pair of values of the two
\* credentials, and every pair of values of the two engines
ENVS ==
  { [ADS_TOKEN |-> TRUE,  UNPAYWALL_EMAIL |-> TRUE,  HAVE_PLAYWRIGHT |-> TRUE,  HAVE_PDFKIT |-> TRUE],
    [ADS_TOKEN |-> FALSE, UNPAYWALL_EMAIL |-> FALSE, HAVE_PLAYWRIGHT |-> FALSE, HAVE_PDFKIT |-> FALSE],
    [ADS_TOKEN |-> TRUE,  UNPAYWALL_EMAIL |-> FALSE, HAVE_PLAYWRIGHT |-> FALSE, HAVE_PDFKIT |-> TRUE],
    [ADS_TOKEN |-> FALSE, UNPAYWALL_EMAIL |-> TRUE,  HAVE_PLAYWRIGHT |-> TRUE,  HAVE_PDFKIT |-> FALSE] }

\* one record, every option, every answer of the hosts
Init ==
  /\ args \in [retries : 1..MaxRetries, allow_licensed : BOOLEAN, use_browser : BOOLEAN,
               accept_scan_only : BOOLEAN, trust_host : {<<>>},
               concurrency : {DEFAULT_CONCURRENCY}]
  /\ env \in ENVS
  /\ world = FullWorld
  /\ \E r \in SINGLE_RECS : InitRun(<<r>>)
  /\ NoCall

Next ==
  \/ \E i \in Recs : Start(i)
  \/ \E i \in Recs : Get(i)
  \/ \E i \in Recs : Browser(i)
  \/ \E i \in Recs : Book(i)
  \/ \E i \in Recs : Validate(i)
  \/ \E i \in Recs : Finish(i)
  \/ \E i \in Recs : Consume(i)
  \/ WriteLedger

Spec == Init /\ [][Next]_vars

\* one record, every option that bears on the loops of fetch_one, every
\* status, content type, redirect and exception; the bodies are one file
\* that passes validate_pdf and one that does not
InitLive ==
  /\ args \in [retries : 1..MaxRetries, allow_licensed : BOOLEAN, use_browser : BOOLEAN,
               accept_scan_only : {FALSE}, trust_host : {<<>>},
               concurrency : {DEFAULT_CONCURRENCY}]
  /\ env \in ENVS
  /\ world = [FullWorld EXCEPT !.files = {"paper13", "landing"}]
  /\ \E r \in SINGLE_RECS : InitRun(<<r>>)
  /\ NoCall

\* The pool threads and the main thread keep running: a step that can be
\* taken is taken, every GET and every engine call returns or raises
\* (timeout of 340, except of 382).
SpecLive == InitLive /\ [][Next]_vars /\ WF_vars(Next)

(***************************************************************************)
(* validate_pdf on its own: one call on an input of the bounded sets, and  *)
(* the same file validated again under the other --accept-scan-only.       *)
(***************************************************************************)
MaxPages == 201

\* the files of a call: one that PdfReader cannot read, and every page count
\* up to MaxPages with every text
VALIDATE_FILES ==
  {[exists |-> TRUE, parse |-> FALSE, pages |-> 0, text |-> "", big |-> TRUE]}
    \cup [exists : {TRUE}, parse : {TRUE}, pages : 0..MaxPages, text : TEXTS, big : {TRUE}]

\* the source URLs of a call: none, a host of the built-in trusted list in
\* mixed case, a host only --trust-host can name, the Gutenberg host
VALIDATE_URLS == {None, URL_ARCHIVE, URL_EXAMPLE, URL_GUTENBERG}

\* validate_pdf as fetch_one calls it, on the arguments of call
CallResult(c) ==
  validate_pdf(c.file, c.source_url, c.accept_scan_only, c.trusted_hosts, c.book)

InitValidate ==
  /\ args \in [retries : {1}, allow_licensed : {FALSE}, use_browser : {FALSE},
               accept_scan_only : BOOLEAN, trust_host : TRUST_HOST_ARGS,
               concurrency : {DEFAULT_CONCURRENCY}]
  /\ env \in {e \in ENVS : e.ADS_TOKEN /\ e.UNPAYWALL_EMAIL}
  /\ world = FullWorld
  /\ InitRun(<<>>)
  /\ \E file \in VALIDATE_FILES, url \in VALIDATE_URLS, book \in BOOLEAN :
       call = [op |-> "validate_pdf", file |-> file, source_url |-> url,
               accept_scan_only |-> args.accept_scan_only,
               trusted_hosts |-> trusted_hosts, book |-> book]
  /\ ret = [done |-> FALSE]

\* the call returns
CallValidate ==
  /\ call.op = "validate_pdf"
  /\ ~ret.done
  /\ ret' = [done |-> TRUE, again |-> FALSE, out |-> CallResult(call)]
  /\ UNCHANGED <<config, pc, cand, ci, attempt, status, final, branch, checks, fs,
                 results, mainpc, log, sleeps, note_at, call>>

\* the same file, URL, hosts and book flag under the other setting of
\* --accept-scan-only; prev keeps the result of the first call
Revalidate ==
  /\ call.op = "validate_pdf"
  /\ ret.done /\ ~ret.again
  /\ call' = [call EXCEPT !.accept_scan_only = ~call.accept_scan_only]
  /\ ret' = [done |-> TRUE, again |-> TRUE, out |-> CallResult(call'), prev |-> ret.out]
  /\ UNCHANGED <<config, pc, cand, ci, attempt, status, final, branch, checks, fs,
                 results, mainpc, log, sleeps, note_at>>

NextValidate ==
  \/ CallValidate
  \/ Revalidate

SpecValidate == InitValidate /\ [][NextValidate]_vars

(***************************************************************************)
(* The pool on several records: the workers of ThreadPoolExecutor run      *)
(* fetch_one side by side on one output directory.  The hosts answer with  *)
(* a PDF or a page; nothing fails and nothing is retried.                  *)
(***************************************************************************)
MaxItems == 2

MaxWorkers == 2

\* the lists of MaxItems records, no record twice; REC_ELECTRO and REC_FULL
\* lead to the same out_pdf
POOL_LISTS ==
  {recs \in [1..MaxItems -> {REC_ELECTRO, REC_FULL, NOT_A_DICT}] :
     \A i, j \in 1..MaxItems : recs[i] = recs[j] => i = j}

PoolWorld ==
  [files |-> {"paper13", "landing"}, redirects |-> {},
   ctypes |-> {"application/pdf", "Text/HTML; charset=UTF-8"}, faults |-> FALSE]

InitPool ==
  /\ args \in [retries : {1}, allow_licensed : {FALSE}, use_browser : {FALSE},
               accept_scan_only : {FALSE}, trust_host : {<<>>},
               concurrency : 1..MaxWorkers]
  /\ env \in {e \in ENVS : ~e.ADS_TOKEN /\ ~e.UNPAYWALL_EMAIL}
  /\ world = PoolWorld
  /\ \E recs \in POOL_LISTS : InitRun(recs)
  /\ NoCall

\* without --use-browser and without a Gutenberg URL neither renderer runs
NextPool ==
  \/ \E i \in Recs : Start(i)
  \/ \E i \in Recs : Get(i)
  \/ \E i \in Recs : Validate(i)
  \/ \E i \in Recs : Finish(i)
  \/ \E i \in Recs : Consume(i)
  \/ WriteLedger

SpecPool == InitPool /\ [][NextPool]_vars

(***************************************************************************)
(* The retry loop with a large --retries: one record with one or with two  *)
(* candidates, hosts that answer with any status, a PDF or a page, or fail. *)
(***************************************************************************)
\* the largest --retries of the retry loop on its own: the least with an
\* attempt whose 2^attempt exceeds the cap
MaxAttempts == 7

InitRetry ==
  /\ args \in [retries : {1, MaxAttempts}, allow_licensed : {FALSE}, use_browser : {FALSE},
               accept_scan_only : {FALSE}, trust_host : {<<>>},
               concurrency : {DEFAULT_CONCURRENCY}]
  /\ env \in {e \in ENVS : e.UNPAYWALL_EMAIL /\ e.ADS_TOKEN}
  /\ world = [PoolWorld EXCEPT !.faults = TRUE]
  /\ \E r \in {REC_DOI, REC_ELECTRO} : InitRun(<<r>>)
  /\ NoCall

SpecRetry == InitRetry /\ [][NextPool]_vars

(***************************************************************************)
(* main run twice on the same records and the same output directory, with  *)
(* hosts that answer every GET alike: the same content type, the same      *)
(* body, no redirect, no failure.                                          *)
(***************************************************************************)
InitRerun ==
  /\ args \in [retries : {1}, allow_licensed : {FALSE}, use_browser : {FALSE},
               accept_scan_only : {FALSE}, trust_host : {<<>>},
               concurrency : 1..MaxWorkers]
  /\ env \in {e \in ENVS : ~e.ADS_TOKEN /\ ~e.UNPAYWALL_EMAIL}
  /\ world \in {[files |-> {f}, redirects |-> {}, ctypes |-> {c}, faults |-> FALSE] :
                  f \in PoolWorld.files, c \in PoolWorld.ctypes}
  /\ \E recs \in POOL_LISTS : InitRun(recs)
  /\ NoCall

\* the first run is over and main is started again: os.makedirs(exist_ok=True)
\* leaves the files of the first run where they are (265-269), the records
\* are loaded and submitted anew (277-291, 388-391).  call keeps the
\* candidates and ret the status dicts of the first run.
Rerun ==
  /\ mainpc = "done"
  /\ call.op = "none"
  /\ call' = [op |-> "rerun", cand |-> cand]
  /\ ret' = [done |-> TRUE, first |-> status]
  /\ pc' = [i \in Recs |-> "queued"]
  /\ cand' = [i \in Recs |-> <<>>]
  /\ ci' = [i \in Recs |-> 0]
  /\ attempt' = [i \in Recs |-> 0]
  /\ status' = [i \in Recs |-> [note |-> ""]]
  /\ final' = [i \in Recs |-> None]
  /\ branch' = [i \in Recs |-> "none"]
  /\ checks' = [i \in Recs |-> ValidateFailed]
  /\ results' = <<>>
  /\ mainpc' = "collect"
  /\ log' = [i \in Recs |-> <<>>]
  /\ sleeps' = [i \in Recs |-> <<>>]
  /\ note_at' = [i \in Recs |-> 0]
  /\ UNCHANGED <<config, fs>>

NextRerun ==
  \/ \E i \in Recs : Start(i)
  \/ \E i \in Recs : Get(i)
  \/ \E i \in Recs : Validate(i)
  \/ \E i \in Recs : Finish(i)
  \/ \E i \in Recs : Consume(i)
  \/ WriteLedger
  \/ Rerun

SpecRerun == InitRerun /\ [][NextRerun]_vars

(***************************************************************************)
(* resolve_candidates on its own: one call on a record, an environment and *)
(* the answers of the two lookups.                                         *)
(***************************************************************************)
InitResolve ==
  /\ args \in [retries : {1}, allow_licensed : {FALSE}, use_browser : {FALSE},
               accept_scan_only : {FALSE}, trust_host : {<<>>},
               concurrency : {DEFAULT_CONCURRENCY}]
  /\ env \in ENVS
  /\ world = FullWorld
  /\ InitRun(<<>>)
  /\ \E rec \in RESOLVE_RECS \cup {REC_ADS_ROW},
        target \in DOI_TARGETS, data \in UNPAYWALL_DATA :
       call = [op |-> "resolve_candidates", rec |-> rec, target |-> target, data |-> data]
  /\ ret = [done |-> FALSE]

\* the call returns its list; slots is what each step had appended
CallResolve ==
  /\ call.op = "resolve_candidates"
  /\ ~ret.done
  /\ ret' = [done |-> TRUE,
             out |-> resolve_candidates(call.rec, call.target, call.data),
             slots |-> Slots(call.rec, call.target, call.data)]
  /\ UNCHANGED <<config, pc, cand, ci, attempt, status, final, branch, checks, fs,
                 results, mainpc, log, sleeps, note_at, call>>

SpecResolve == InitResolve /\ [][CallResolve]_vars

(***************************************************************************)
(* dedupe_rows of einstein_missing_from_ads.py on its own: one call on a   *)
(* list of rows as to_rows writes them, and a second call on what the      *)
(* first returned.                                                         *)
(***************************************************************************)
\* the longest list of rows of a call
MaxRows == 3

\* the bibcode of a row: none, one, the same one with a blank after it, and
\* another one
DEDUPE_BIBS == {"", BIB_1905, BIB_1905 \o " ", "1936FrInJ.221..349E"}

\* the doi of a row: None (to_rows, line 58, of an empty list), one, the same
\* one in capitals with a blank before it, and another one
DEDUPE_DOIS == {None, DOI_1905, " 10.1002/ANDP.19053221004",
                "10.1016/s0016-0032(36)91047-5"}

\* the rows to_rows makes (54-61) of documents with these bibcodes and DOIs
DEDUPE_ROWS ==
  {[title |-> "Untitled", year |-> "1905", bibcode |-> b, doi |-> d,
    url_hint |-> IF b # "" THEN ADS_GATEWAY(b) ELSE ""] :
     b \in DEDUPE_BIBS, d \in DEDUPE_DOIS}

\* per value of a field: (x or "").strip() of line 93 and
\* (x or "").strip().lower() of line 94
DEDUPE_KEYS ==
  [x \in DEDUPE_BIBS \cup DEDUPE_DOIS |->
     LET v == IF x = None THEN "" ELSE x
     IN  [b |-> Strip(v), d |-> Lower(Strip(v))]]

\* b of line 93
BibKey(r) == DEDUPE_KEYS[r.bibcode].b

\* d of line 94 without .lower()
DoiKey_CaseSensitive(r) == DEDUPE_KEYS[r.doi].b

\* d of line 94
DoiKey(r) == DEDUPE_KEYS[r.doi].d

\* the loop of lines 92-99 from row i on; out holds the positions in rows of
\* the rows appended so far
RECURSIVE DedupeFrom(_, _, _, _, _)
DedupeFrom(rows, i, seen_bib, seen_doi, out) ==
  IF i > Len(rows) THEN out
  ELSE
    LET b == BibKey(rows[i])
        d == DoiKey(rows[i])
    IN  IF b # "" /\ b \in seen_bib THEN DedupeFrom(rows, i + 1, seen_bib, seen_doi, out)
        ELSE IF d # "" /\ d \in seen_doi
        THEN DedupeFrom(rows, i + 1, seen_bib, seen_doi, out)
        ELSE DedupeFrom(rows, i + 1,
                        IF b # "" THEN seen_bib \cup {b} ELSE seen_bib,
                        IF d # "" THEN seen_doi \cup {d} ELSE seen_doi,
                        Append(out, i))

\* the positions in rows of the rows dedupe_rows returns
KeptPositionsOf(rows) == DedupeFrom(rows, 1, {}, {}, <<>>)

\* dedupe_rows (89-100)
dedupe_rows(rows) ==
  LET kept == KeptPositionsOf(rows)
  IN  [n \in 1..Len(kept) |-> rows[kept[n]]]

InitDedupe ==
  /\ args \in [retries : {1}, allow_licensed : {FALSE}, use_browser : {FALSE},
               accept_scan_only : {FALSE}, trust_host : {<<>>},
               concurrency : {DEFAULT_CONCURRENCY}]
  /\ env \in {e \in ENVS : e.ADS_TOKEN /\ e.UNPAYWALL_EMAIL /\ e.HAVE_PLAYWRIGHT /\ e.HAVE_PDFKIT}
  /\ world = FullWorld
  /\ InitRun(<<>>)
  /\ \E n \in 0..MaxRows : \E rows \in [1..n -> DEDUPE_ROWS] :
       call = [op |-> "dedupe_rows", rows |-> rows]
  /\ ret = [done |-> FALSE]

\* the call returns its list; kept is where each returned row was in rows
CallDedupe ==
  /\ call.op = "dedupe_rows"
  /\ ~ret.done
  /\ ret' = [done |-> TRUE, again |-> FALSE,
             out |-> dedupe_rows(call.rows), kept |-> KeptPositionsOf(call.rows)]
  /\ UNCHANGED <<config, pc, cand, ci, attempt, status, final, branch, checks, fs,
                 results, mainpc, log, sleeps, note_at, call>>

\* dedupe_rows on the list it returned; prev keeps that list
DedupeAgain ==
  /\ call.op = "dedupe_rows"
  /\ ret.done /\ ~ret.again
  /\ ret' = [ret EXCEPT !.again = TRUE, !.out = dedupe_rows(ret.out)] @@ [prev |-> ret.out]
  /\ UNCHANGED <<config, pc, cand, ci, attempt, status, final, branch, checks, fs,
                 results, mainpc, log, sleeps, note_at, call>>

NextDedupe ==
  \/ CallDedupe
  \/ DedupeAgain

SpecDedupe == InitDedupe /\ [][NextDedupe]_vars

(***************************************************************************)
(* Ledger entries                                                          *)
(***************************************************************************)
\* fetch_one has returned status for record i
Returned(i) == IsDict(items[i]) /\ pc[i] \in {"returned", "consumed"}

\* r.get("valid_primary") of an entry (404, 407)
ValidPrimary(st) == HasKey(st, "valid_primary") /\ st.valid_primary

\* the entries main counts as validated (404)
ValidatedOK(st) == st.saved_as # None /\ ValidPrimary(st)

\* no candidate is left for the loop after the current one
LastCandidate(i) == NextCandidate(cand[i], ci[i] + 1) > Len(cand[i])

(***************************************************************************)
(* Properties of fetch_one on one record, under Spec                       *)
(***************************************************************************)

\* C1: when the file of a candidate fails validation and is quarantined,
\* fetch_one goes on with the next candidate: it returns the quarantined
\* entry only if no candidate is left to try.
C1_QuarantineAdvances ==
  \A i \in Recs :
    (Returned(i) /\ status[i].note = "quarantined_failed_validation")
      => LastCandidate(i)

\* C3: a record for which resolve_candidates returns no candidate (the
\* record with only a hint outside the whitelist is one) gets no GET and no
\* file, and its entry has the note "no_primary_candidate", no chosen_url,
\* no saved_as, no sha256, and is not accepted.
C3_NoCandidateEntry ==
  \A i \in Recs :
    /\ (items[i] = REC_HINT_ONLY /\ pc[i] # "queued") => cand[i] = <<>>
    /\ (Returned(i) /\ cand[i] = <<>>) =>
         /\ status[i].note = "no_primary_candidate"
         /\ status[i].chosen_url = None
         /\ status[i].saved_as = None
         /\ status[i].sha256 = None
         /\ ~status[i].validated /\ ~ValidPrimary(status[i])
         /\ log[i] = <<>>
         /\ \A p \in PATHS : fs[p] = NOFILE
         /\ pc[i] = "consumed" => \E n \in DOMAIN results : results[n] = status[i]

C3_Witness ==
  /\ mainpc = "done"
  /\ items = <<REC_HINT_ONLY>>
  /\ results = <<NoCandidateStatus(InitialStatus(REC_HINT_ONLY.title, REC_HINT_ONLY.year))>>
  /\ results[1].note = "no_primary_candidate"

\* C4: every URL of the candidate list satisfies is_primary_url, and every
\* GET of fetch_one is a GET of a URL of that list.
C4_CandidatesPrimary ==
  \A i \in Recs :
    /\ \A k \in DOMAIN cand[i] : URL_FACTS[cand[i][k]].primary
    /\ \A n \in DOMAIN log[i] : log[i][n].k \in DOMAIN cand[i]

C4_Witness ==
  \E i \in Recs :
    /\ cand[i] = <<URL_WILEY, URL_WILEY_PDF>>
    /\ \E n \in DOMAIN log[i] : log[i][n].k = 1
    /\ \E n \in DOMAIN log[i] : log[i][n].k = 2

\* C5: the entry of a record whose file passed validation has validated
\* true, saved_as the output path, a sha256 and the page count of the file;
\* validated is false on every entry whose file did not pass.
C5_ValidatedColumn ==
  \A i \in Recs :
    Returned(i) =>
      /\ ValidPrimary(status[i]) =>
           /\ status[i].validated
           /\ status[i].saved_as = out_pdf(i)
           /\ status[i].sha256 # None
           /\ status[i].pages = FILES[fs[out_pdf(i)]].pages
      /\ status[i].validated => ValidPrimary(status[i])

\* C6: an entry has a sha256 only if its file was accepted by the validator.
C6_HashOnlyAccepted ==
  \A i \in Recs :
    (Returned(i) /\ status[i].sha256 # None) => ValidPrimary(status[i])

\* C7: when every candidate was attempted and none accepted, chosen_url is
\* the last candidate attempted and the note, if one was written, was
\* written during the attempts on that candidate.
C7_NoteOfLastCandidate ==
  \A i \in Recs :
    (Returned(i) /\ ci[i] >= 1 /\ LastCandidate(i) /\ ~ValidPrimary(status[i])) =>
      /\ status[i].chosen_url = cand[i][ci[i]]
      /\ note_at[i] # 0 => note_at[i] = ci[i]

\* C8: when the only candidate answers every attempt of the retry budget
\* with a retryable status, the entry is not accepted, has no saved_as, and
\* its note is not empty.
C8_RetryableLeavesNote ==
  \A i \in Recs :
    ( /\ Returned(i)
      /\ Len(cand[i]) = 1
      /\ Len(log[i]) = args.retries
      /\ \A n \in DOMAIN log[i] : log[i][n].out = "retryable" ) =>
      /\ ~ValidPrimary(status[i])
      /\ status[i].saved_as = None
      /\ status[i].note # ""

(***************************************************************************)
(* Properties of validate_pdf, under SpecValidate                          *)
(***************************************************************************)
\* the host of the call matches an entry of its trusted hosts by suffix or
\* substring
CallTrusted ==
  \E j \in DOMAIN call.trusted_hosts :
    \/ EndsWith(ret.out.host, call.trusted_hosts[j])
    \/ Contains(ret.out.host, call.trusted_hosts[j])

\* C9: turning accept_scan_only on never turns an accepted file into a
\* rejected one; the result differs from has_einstein and page_sane only
\* with accept_scan_only on, a trusted host, under 100 characters of text
\* and 2 to 80 pages; 45 pages without text from a trusted host are accepted
\* with it on and rejected with it off.
C9_ScanOnlyRelaxation ==
  ret.done =>
    /\ (ret.out.valid_primary # (ret.out.has_einstein /\ ret.out.page_sane)) =>
         /\ call.accept_scan_only
         /\ CallTrusted
         /\ ret.out.text_len < 100
         /\ 2 <= ret.out.pages /\ ret.out.pages <= 80
    /\ ret.again =>
         LET on  == IF call.accept_scan_only THEN ret.out ELSE ret.prev
             off == IF call.accept_scan_only THEN ret.prev ELSE ret.out
         IN  /\ off.valid_primary => on.valid_primary
             /\ (call.file.parse /\ call.file.pages = 45 /\ call.file.text = ""
                   /\ CallTrusted)
                  => (on.valid_primary /\ ~off.valid_primary)

C9_Witness ==
  /\ ret.done /\ ret.again
  /\ call.file.parse /\ call.file.pages = 45 /\ call.file.text = ""
  /\ call.source_url = URL_ARCHIVE
  /\ call.accept_scan_only
  /\ ret.out.valid_primary /\ ~ret.prev.valid_primary

\* C10: a file whose text has the keyword and that has 1 to 200 pages is
\* accepted whatever has_venue, accept_scan_only, the trusted hosts and the
\* book flag are; a text that differs only in has_venue gets the same
\* valid_primary.
C10_KeywordAndPagesAccepted ==
  ret.done =>
    /\ ( /\ call.file.parse
         /\ TEXT_FACTS[call.file.text].has_einstein
         /\ 1 <= call.file.pages /\ call.file.pages <= 200 ) => ret.out.valid_primary
    /\ \A t \in TEXTS :
         ( /\ TEXT_FACTS[t].has_einstein = TEXT_FACTS[call.file.text].has_einstein
           /\ (TEXT_FACTS[t].text_len < 100) = (TEXT_FACTS[call.file.text].text_len < 100) )
           => CallResult([call EXCEPT !.file.text = t]).valid_primary = ret.out.valid_primary

C10_Witness ==
  /\ ret.done
  /\ call.file.text = TEXT_BOOK /\ call.file.pages = 200
  /\ ~ret.out.has_venue
  /\ ~call.accept_scan_only /\ ~call.book /\ call.source_url = URL_EXAMPLE
  /\ ret.out.valid_primary

\* C22: a result of validate_pdf with valid_primary true has page_sane true
\* and at least one page, also when only the scan-only relaxation accepted
\* the file; a file that cannot be parsed gets the result with valid_primary
\* false, pages 0, text_len 0 and every flag false; every call returns a
\* result with the seven keys.
C22_ValidImpliesPageSane ==
  ret.done =>
    LET sound(out) ==
          /\ out \in [has_einstein : BOOLEAN, has_venue : BOOLEAN, page_sane : BOOLEAN,
                      valid_primary : BOOLEAN, text_len : Nat, pages : Nat,
                      host : {""} \cup {URL_FACTS[u].host : u \in VALIDATE_URLS \ {None}}]
          /\ out.valid_primary => (out.page_sane /\ out.pages >= 1)
          /\ ~call.file.parse =>
               out = [has_einstein |-> FALSE, has_venue |-> FALSE, page_sane |-> FALSE,
                      valid_primary |-> FALSE, text_len |-> 0, pages |-> 0, host |-> ""]
    IN  /\ sound(ret.out)
        /\ ret.again => sound(ret.prev)

\* 80 pages without the keyword from a trusted host, accepted by the
\* relaxation alone
C22_Witness ==
  /\ ret.done
  /\ call.accept_scan_only /\ call.source_url = URL_ARCHIVE
  /\ call.file.parse /\ call.file.pages = 80 /\ call.file.text = TEXT_STAMP
  /\ ~ret.out.has_einstein
  /\ ret.out.valid_primary /\ ret.out.page_sane /\ ret.out.pages = 80

(***************************************************************************)
(* Properties of a run of the pool, under SpecPool                         *)
(***************************************************************************)
\* C2: when the run is over, every entry with a saved_as names a file that
\* exists, and the file of an accepted entry has the sha256 of the entry.
C2_SavedFilesExist ==
  mainpc = "done" =>
    \A n \in DOMAIN results :
      (HasKey(results[n], "saved_as") /\ results[n].saved_as # None) =>
        /\ fs[results[n].saved_as] # NOFILE
        /\ ValidatedOK(results[n]) =>
             sha256_bytes(fs[results[n].saved_as]) = results[n].sha256
(***************************************************************************)
(* Properties of resolve_candidates, under SpecResolve                     *)
(***************************************************************************)
\* C11: the list resolve_candidates returns is, in this order, the resolved
\* DOI, the open-access URL, the index link and the hint, each only if it
\* was produced and is on a whitelisted host; the filter leaves the order of
\* what it keeps; the legacy fallback link is returned only when none of the
\* four is left after the filter.
C11_ResolutionOrder ==
  ret.done =>
    LET kept == {j \in 1..4 : ret.slots[j] # None /\ URL_FACTS[ret.slots[j]].primary}
        rank(j) == Cardinality({k \in kept : k <= j})
    IN  IF kept # {}
        THEN /\ Len(ret.out) = Cardinality(kept)
             /\ \A j \in kept : ret.out[rank(j)] = ret.slots[j]
        ELSE \A n \in DOMAIN ret.out :
               ret.out[n] = ADS_FALLBACK(Strip(call.rec.bibcode))

C11_Witness ==
  /\ ret.done
  /\ ret.slots = <<URL_WILEY, URL_WILEY_PDF, ADS_GATEWAY(BIB_1905), URL_ARCHIVE>>
  /\ ret.out = ret.slots

\* C12 as stated: when candidates were produced before the filter and every
\* one of them fails the trust policy, the returned list is empty, also for
\* a record with a bibcode.
C12_AllFilteredEmpty ==
  ( /\ ret.done
    /\ \E j \in 1..4 : ret.slots[j] # None
    /\ \A j \in 1..4 : ret.slots[j] # None => ~URL_FACTS[ret.slots[j]].primary )
    => ret.out = <<>>

\* C12, amended: when every candidate produced before the filter fails the
\* trust policy, the returned list is empty for a record without a bibcode,
\* and holds exactly the legacy fallback link of the bibcode, which is on a
\* whitelisted host, for a record with one.
C12_AllFilteredFallbackOnly ==
  ( /\ ret.done
    /\ \A j \in 1..4 : ret.slots[j] # None => ~URL_FACTS[ret.slots[j]].primary )
      => /\ Strip(call.rec.bibcode) = "" => ret.out = <<>>
         /\ Strip(call.rec.bibcode) # "" =>
              /\ ret.out = <<"http://adsabs.harvard.edu/pdf/" \o Strip(call.rec.bibcode)>>
              /\ is_primary_url(ret.out[1])

C12_Witness ==
  /\ ret.done
  /\ ret.slots = <<URL_PUBLISHER, None, None, URL_EXAMPLE>>
  /\ ret.out = <<"http://adsabs.harvard.edu/pdf/1905AnP...322..891E">>

\* C21: the list resolve_candidates returns holds each URL at most once,
\* also when the hint of the record is the index link the resolver builds
\* from the record's bibcode.
C21_CandidatesDistinct ==
  ret.done =>
    \A m, n \in DOMAIN ret.out : ret.out[m] = ret.out[n] => m = n

(***************************************************************************)
(* Properties of the pool, under SpecPool                                  *)
(***************************************************************************)
\* C13: at every moment results holds exactly one entry per future consumed
\* so far and nothing else, so a worker never appends; the entry of a record
\* whose fetch_one raised has a note that starts with "fatal:", the entry of
\* any other record is the status its fetch_one returned; when the run is
\* over every submitted record has its entry, whatever the number of
\* workers and the order of completion.
C13_OneEntryPerRecord ==
  /\ \E f \in [DOMAIN results -> Recs] :
       /\ \A m, n \in DOMAIN results : f[m] = f[n] => m = n
       /\ \A n \in DOMAIN results :
            /\ pc[f[n]] = "consumed"
            /\ IF IsDict(items[f[n]])
               THEN results[n] = status[f[n]]
               ELSE /\ DOMAIN results[n] = {"note"}
                    /\ StartsWith(results[n].note, "fatal:")
  /\ Len(results) = Cardinality({i \in Recs : pc[i] = "consumed"})
  /\ mainpc = "done" => Len(results) = Len(items)

C13_Witness ==
  /\ mainpc = "done"
  /\ args.concurrency = 2
  /\ items = <<NOT_A_DICT, REC_ELECTRO>>
  /\ Len(results) = 2
  /\ results[1] = status[2] /\ ValidatedOK(results[1])
  /\ StartsWith(results[2].note, "fatal:")

(***************************************************************************)
(* Properties of two runs, under SpecRerun                                 *)
(***************************************************************************)
\* C14: when the second run is over and its lookups gave every record the
\* candidates of the first run, while every host answered every GET of both
\* runs alike, the entry of every record has the chosen_url, the accepted
\* or quarantined status, the saved_as and the sha256 of its entry of the
\* first run, whatever the scheduling of the workers.
C14_RerunSameEntries ==
  (call.op = "rerun" /\ mainpc = "done" /\ cand = call.cand) =>
    \A i \in Recs :
      IsDict(items[i]) =>
        /\ status[i].chosen_url = ret.first[i].chosen_url
        /\ ValidPrimary(status[i]) = ValidPrimary(ret.first[i])
        /\ (status[i].note = "quarantined_failed_validation")
             = (ret.first[i].note = "quarantined_failed_validation")
        /\ status[i].saved_as = ret.first[i].saved_as
        /\ status[i].sha256 = ret.first[i].sha256

(***************************************************************************)
(* Termination of a run, under SpecLive                                    *)
(***************************************************************************)
\* C15: a record never gets more GETs than it has candidates times
\* --retries, and, every call returning or raising, the run reaches the
\* point where every record has returned, its entry is in results and the
\* ledger is written, whatever the statuses, content types and exceptions.
C15_RunTerminates ==
  /\ [](\A i \in Recs : Len(log[i]) <= Len(cand[i]) * args.retries)
  /\ <>(/\ mainpc = "done"
        /\ Len(results) = Len(items)
        /\ \A i \in Recs : pc[i] = "consumed")

C15_Witness ==
  /\ mainpc = "done"
  /\ args.retries = MaxRetries
  /\ \E i \in Recs :
       /\ Len(cand[i]) = 2
       /\ Len(log[i]) = 2 * MaxRetries
       /\ \E n \in DOMAIN log[i] : log[i][n].out = "exception"
       /\ \E n \in DOMAIN log[i] : log[i][n].out = "retryable"

(***************************************************************************)
(* Properties of the retry loop, under SpecRetry                           *)
(***************************************************************************)
\* C16: every GET that ends in a retryable status or in an exception of the
\* request or the transfer is followed by one backoff sleep whose base is
\* min(60, 2^attempt), attempt counted from 0, and then by the GET of the
\* same URL as the next attempt while attempts are left, else by the first
\* attempt on the next candidate, or by the return when there is none; no
\* URL is requested more than --retries times.
C16_BackoffAndRetry ==
  \A i \in Recs :
    LET l == log[i]
        fails == {n \in DOMAIN l : l[n].out \in {"retryable", "exception", "broken"}}
        rank(n) == Cardinality({m \in fails : m <= n})
        again(n) == l[n].a + 1 < args.retries
        nextk(n) == IF again(n) THEN l[n].k ELSE l[n].k + 1
        nexta(n) == IF again(n) THEN l[n].a + 1 ELSE 0
    IN  /\ Len(sleeps[i]) = Cardinality(fails)
        /\ \A n \in fails :
             /\ sleeps[i][rank(n)] = (IF 2^(l[n].a) < 60 THEN 2^(l[n].a) ELSE 60)
             /\ n < Len(l) => (l[n + 1].k = nextk(n) /\ l[n + 1].a = nexta(n))
             /\ n = Len(l) =>
                  IF nextk(n) <= Len(cand[i])
                  THEN pc[i] = "fetch" /\ ci[i] = nextk(n) /\ attempt[i] = nexta(n)
                  ELSE Returned(i)
        /\ \A k \in DOMAIN cand[i] :
             Cardinality({n \in DOMAIN l : l[n].k = k}) <= args.retries

C16_Witness ==
  \E i \in Recs :
    /\ args.retries = 7
    /\ Len(cand[i]) = 2
    /\ Len(log[i]) = 8
    /\ log[i][7] = [k |-> 1, a |-> 6, out |-> "retryable", html |-> FALSE]
    /\ log[i][8] = [k |-> 2, a |-> 0, out |-> "exception", html |-> FALSE]
    /\ sleeps[i] = <<1, 2, 4, 8, 16, 32, 60, 1>>

(***************************************************************************)
(* Properties of the branches of fetch_one on one record, under Spec       *)
(***************************************************************************)
\* C17: when fetch_one has returned, a file that was retrieved whole is at
\* out_pdf only if the entry is accepted with saved_as = out_pdf, and an
\* entry that has a saved_as without being accepted names the quarantine
\* path, where the file is.
C17_RejectedFilesQuarantined ==
  \A i \in Recs :
    Returned(i) =>
      /\ fs[out_pdf(i)] \notin {NOFILE, "truncated"} =>
           (ValidPrimary(status[i]) /\ status[i].saved_as = out_pdf(i))
      /\ (status[i].saved_as # None /\ ~ValidPrimary(status[i])) =>
           (status[i].saved_as = qpath(i) /\ fs[qpath(i)] # NOFILE)

\* C18: the body of a response whose Content-Type has "html" or "text/" or
\* is empty is not streamed to out_pdf: its GET ends in the renderer path,
\* whatever the final URL is.
C18_HtmlNeverStreamed ==
  \A i \in Recs :
    \A n \in DOMAIN log[i] : log[i][n].html => log[i][n].out = "html"

\* C19: a response with an unsupported Content-Type ends the attempts on
\* its URL: no later GET is one of the same candidate, no sleep is added,
\* right after it the note is "unsupported_ctype:" and the type, and the
\* loop is at the first attempt on the next candidate or fetch_one has
\* returned; GETs that end so, in a retryable status or in an exception of
\* the request write no file.
C19_UnsupportedBreaks ==
  \A i \in Recs :
    LET l == log[i]
        last == Len(l)
    IN  /\ \A n \in DOMAIN l :
             l[n].out = "unsupported" => \A m \in (n + 1)..last : l[m].k > l[n].k
        /\ Len(sleeps[i]) =
             Cardinality({n \in DOMAIN l : l[n].out \in {"retryable", "exception", "broken"}})
        /\ (last > 0 /\ l[last].out = "unsupported") =>
             /\ status[i].note = "unsupported_ctype:image/png"
             /\ \/ pc[i] = "fetch" /\ ci[i] > l[last].k /\ attempt[i] = 0
                \/ Returned(i) /\ NextCandidate(cand[i], l[last].k + 1) > Len(cand[i])
        /\ (\A n \in DOMAIN l : l[n].out \in {"unsupported", "retryable", "exception"}) =>
             \A p \in PATHS : fs[p] = NOFILE

C19_Witness ==
  \E i \in Recs :
    /\ Returned(i)
    /\ args.retries = MaxRetries
    /\ Len(log[i]) = 2
    /\ log[i][1].out = "unsupported" /\ log[i][1].k = 1 /\ log[i][1].a = 0
    /\ log[i][2].out = "pdf" /\ log[i][2].k = 2
    /\ sleeps[i] = <<>>
    /\ ValidatedOK(status[i])

\* C20: browser_fetch_pdf and html_to_pdf are called with a final URL that
\* satisfies is_primary_url, and html_to_pdf only with one whose host is
\* the Gutenberg host.
C20_RendererOnTrustedHost ==
  \A i \in Recs :
    /\ pc[i] \in {"browser", "book"} => URL_FACTS[final[i]].primary
    /\ pc[i] = "book" => HostMatches(URL_FACTS[final[i]].host, <<"gutenberg.org">>)

(***************************************************************************)
(* Properties of dedupe_rows, under SpecDedupe                             *)
(***************************************************************************)
\* per row: its bibcode without the blanks around it, and its DOI without
\* the blanks around it and in small letters, "" for a row without one
ROW_KEYS ==
  [r \in DEDUPE_ROWS |->
     [bibcode |-> Strip(r.bibcode),
      doi     |-> IF r.doi = None THEN "" ELSE Lower(Strip(r.doi))]]

BibOf(r) == ROW_KEYS[r].bibcode

DoiOf(r) == ROW_KEYS[r].doi

\* the list the first call returned
FirstOut == IF ret.again THEN ret.prev ELSE ret.out

\* no two rows of the list have the same non-empty bibcode, and no two the
\* same non-empty DOI, capitals and small letters taken as the same
NoSharedKeys(rows) ==
  \A m, n \in DOMAIN rows :
    m # n =>
      /\ BibOf(rows[m]) # "" => BibOf(rows[m]) # BibOf(rows[n])
      /\ DoiOf(rows[m]) # "" => DoiOf(rows[m]) # DoiOf(rows[n])

\* C23 as stated: the returned list has no two rows with the same non-empty
\* bibcode and no two with the same non-empty DOI; the row it has of a
\* bibcode or of a DOI is the first row of the input with that bibcode or
\* DOI, and the rows are in input order; dedupe_rows of the returned list is
\* the returned list.
C23_KeepsFirstOccurrences ==
  ret.done =>
    /\ NoSharedKeys(FirstOut)
    /\ \A n \in DOMAIN ret.kept :
         /\ FirstOut[n] = call.rows[ret.kept[n]]
         /\ \A k \in DOMAIN ret.kept : k < n => ret.kept[k] < ret.kept[n]
         /\ \A j \in 1..(ret.kept[n] - 1) :
              /\ BibOf(FirstOut[n]) # "" => BibOf(call.rows[j]) # BibOf(FirstOut[n])
              /\ DoiOf(FirstOut[n]) # "" => DoiOf(call.rows[j]) # DoiOf(FirstOut[n])
    /\ ret.again => ret.out = ret.prev

\* C23, amended: the returned list has no two rows with the same non-empty
\* bibcode and no two with the same non-empty DOI, blanks around them and,
\* for the DOI, capitals disregarded; it is the input, in input order,
\* without exactly the rows that have the bibcode or the DOI of a row kept
\* before them, so a row that was dropped holds back no later row;
\* dedupe_rows of the returned list is the returned list.
C23_KeepsFirstAmongKept ==
  ret.done =>
    LET keptAt == {ret.kept[n] : n \in DOMAIN ret.kept}
        shares(i, j) ==
          \/ BibOf(call.rows[i]) # "" /\ BibOf(call.rows[i]) = BibOf(call.rows[j])
          \/ DoiOf(call.rows[i]) # "" /\ DoiOf(call.rows[i]) = DoiOf(call.rows[j])
    IN  /\ NoSharedKeys(FirstOut)
        /\ Len(FirstOut) = Len(ret.kept)
        /\ \A n \in DOMAIN ret.kept :
             /\ ret.kept[n] \in DOMAIN call.rows
             /\ FirstOut[n] = call.rows[ret.kept[n]]
             /\ \A k \in DOMAIN ret.kept : k < n => ret.kept[k] < ret.kept[n]
        /\ \A i \in DOMAIN call.rows :
             i \in keptAt <=> ~\E j \in keptAt : j < i /\ shares(i, j)
        /\ ret.again => ret.out = ret.prev

\* the second row has the DOI of the first and is dropped; the third has the
\* bibcode of the second and is kept
C23_Witness ==
  /\ ret.done /\ ret.again
  /\ Len(call.rows) = 3
  /\ call.rows[1].bibcode = BIB_1905 /\ call.rows[1].doi = DOI_1905
  /\ call.rows[2].bibcode = "1936FrInJ.221..349E"
  /\ call.rows[2].doi = " 10.1002/ANDP.19053221004"
  /\ call.rows[3].bibcode = "1936FrInJ.221..349E"
  /\ call.rows[3].doi = "10.1016/s0016-0032(36)91047-5"
  /\ ret.kept = <<1, 3>>
  /\ ret.out = <<call.rows[1], call.rows[3]>>
  /\ ret.out = ret.prev

====
